---- MODULE Spec2Model ----
(***************************************************************************)
(* Fetch/pull hook orchestration of git-ai                                 *)
(* (src/src/commands/hooks/fetch_hooks.rs): the PRE hook that spawns the   *)
(* background authorship-notes fetch, the two POST hooks that join it, the *)
(* working-log repair after a fast-forward pull, and the reflog-based      *)
(* fast-forward detector; and the traversal of the authorship notes       *)
(* (src/src/git/authorship_traversal.rs): the enumeration of refs/notes/ai,*)
(* the parser of the cat-file --batch output and the extractor of the file *)
(* paths of a note, which together build the set of AI-touched files.      *)
(*                                                                         *)
(* Text is a sequence of one-character strings; the empty sequence stands  *)
(* for Option::None where a commit id is optional, and 0 for "no handle".  *)
(***************************************************************************)
EXTENDS Integers, Sequences, FiniteSets, TLC

VARIABLES
    inv,                      \* number of guarded invocations started
    command,                  \* "fetch" or "pull": which POST hook the dispatcher calls
    dry_run,                  \* is_dry_run(&parsed_args.command_args)
    pre_command_base_commit,  \* repository.pre_command_base_commit (<<>> = None)
    pc,                       \* position of the foreground thread
    remote,                   \* PRE's local `remote` (<<>> until resolved)
    pre_ret,                  \* value returned by fetch_pull_pre_command_hook (0 = None)
    fetch_authorship_handle,  \* command_hooks_context.fetch_authorship_handle (0 = None)
    handle,                   \* POST's local `handle` after take() (0 = None)
    bg,                       \* the spawned thread: [pc, result]
    joins,                    \* how many times the handle of this invocation was joined
    exit_status,              \* exit status of the main command ("running" until it ends)
    head,                     \* current HEAD of the repository (<<>> = unreadable)
    reflog,                   \* what `git reflog -1 --format=%H %gs` yields: [ok, stdout]
    old_head,                 \* POST's local old_head
    new_head,                 \* POST's local new_head / the detector's expected_new_head
    ff,                       \* result of was_fast_forward_pull ("unset" until called)
    calls,                    \* calls the hooks made, in order
    renames                   \* rename_working_log requests: [from, to, result]

\* load_all_ai_touched_files (src/src/git/authorship_traversal.rs)
VARIABLES
    notes,        \* the objects under refs/notes/ai, in tree order (kinds, see NoteKinds)
    tail,         \* how the batch output ends after the last complete record (see Tails)
    ls_tree,      \* what exec_git(ls-tree -r refs/notes/ai) yields: [ok, code, stdout]
    cat_file,     \* what exec_git_stdin(cat-file --batch) yields: [ok, code, stdout]
    ipc,          \* position inside load_all_ai_touched_files_sync
    call_no,      \* which of the successive calls is running
    blob_shas,    \* result of get_note_blob_shas
    stdin_data,   \* what was written to cat-file's input
    pos,          \* parse_cat_file_batch_output: read position (0-based)
    results,      \* parse_cat_file_batch_output: contents collected / blob_contents
    next_content, \* index of the next element of blob_contents to extract
    all_files,    \* the accumulating HashSet of file paths
    docs,         \* documents handed to AuthorshipLog::deserialize_from_string
    round_trips,  \* cat-file round trips made by the running call
    ret,          \* outcome of the running call: [kind, files]
    first_ret     \* outcome of the first call, kept for the second

hookvars == <<inv, command, dry_run, pre_command_base_commit, pc, remote, pre_ret,
              fetch_authorship_handle, handle, bg, joins, exit_status, head, reflog,
              old_head, new_head, ff, calls, renames>>

ixvars == <<notes, tail, ls_tree, cat_file, ipc, call_no, blob_shas, stdin_data, pos,
            results, next_content, all_files, docs, round_trips, ret, first_ret>>

vars == <<hookvars, ixvars>>

----------------------------------------------------------------------------
(* Bounds *)

MaxInvocations == 2
MaxPad == 1

----------------------------------------------------------------------------
(* Text *)

None == <<>>

Pull == <<"p", "u", "l", "l">>
FastForward == <<":", " ", "F", "a", "s", "t", "-", "f", "o", "r", "w", "a", "r", "d">>

\* char::is_whitespace, on the characters the model uses
WhiteSpace == {" ", "\n", "\t", "\r"}

\* An invalid UTF-8 byte, and U+FFFD which from_utf8_lossy puts in its place
BadByte == "xFF"
Replacement == "uFFFD"

RECURSIVE from_utf8_lossy(_)
from_utf8_lossy(bytes) ==
    IF bytes = <<>> THEN <<>>
    ELSE <<IF Head(bytes) = BadByte THEN Replacement ELSE Head(bytes)>>
         \o from_utf8_lossy(Tail(bytes))

RECURSIVE trim_start(_)
trim_start(s) ==
    IF s # <<>> /\ Head(s) \in WhiteSpace THEN trim_start(Tail(s)) ELSE s

RECURSIVE trim_end(_)
trim_end(s) ==
    IF s # <<>> /\ s[Len(s)] \in WhiteSpace
    THEN trim_end(SubSeq(s, 1, Len(s) - 1))
    ELSE s

trim(s) == trim_end(trim_start(s))

\* Position of the first ' ' of s, 0 when there is none (str::split_once(' '))
RECURSIVE find_space(_, _)
find_space(s, i) ==
    IF i > Len(s) THEN 0
    ELSE IF s[i] = " " THEN i
    ELSE find_space(s, i + 1)

split_once(s) ==
    LET i == find_space(s, 1)
    IN  IF i = 0 THEN [found |-> FALSE, sha |-> <<>>, subject |-> <<>>]
        ELSE [found |-> TRUE,
              sha |-> SubSeq(s, 1, i - 1),
              subject |-> SubSeq(s, i + 1, Len(s))]

starts_with(s, p) == Len(s) >= Len(p) /\ SubSeq(s, 1, Len(p)) = p

ends_with(s, p) == Len(s) >= Len(p) /\ SubSeq(s, Len(s) - Len(p) + 1, Len(s)) = p

----------------------------------------------------------------------------
(* Fast-Forward Detector *)

\* exec_git failed
ExecErr == [ok |-> FALSE, stdout |-> <<>>]

ExecOk(bytes) == [ok |-> TRUE, stdout |-> bytes]

\* The detector without the check that the entry is the one of the new head
was_fast_forward_pull_any_sha(res, expected_new_head) ==
    IF ~res.ok THEN FALSE
    ELSE LET output_str == trim(from_utf8_lossy(res.stdout))
             parts == split_once(output_str)
         IN  IF ~parts.found THEN FALSE
             ELSE starts_with(parts.subject, Pull)
                  /\ ends_with(parts.subject, FastForward)

was_fast_forward_pull(res, expected_new_head) ==
    IF ~res.ok THEN FALSE
    ELSE LET output_str == trim(from_utf8_lossy(res.stdout))
             parts == split_once(output_str)
         IN  IF ~parts.found THEN FALSE
             ELSE IF parts.sha # expected_new_head THEN FALSE
             ELSE starts_with(parts.subject, Pull)
                  /\ ends_with(parts.subject, FastForward)

----------------------------------------------------------------------------
(* Inputs *)

CommitA == <<"a", "1">>
CommitB == <<"b", "2">>
Commits == {CommitA, CommitB}
OptCommits == Commits \cup {None}

Line(id, subject) == id \o <<" ">> \o subject \o <<"\n">>

\* Reflog answers the hooks are run against
HookReflogs ==
    { ExecErr,
      ExecOk(Line(CommitB, Pull \o FastForward)),
      ExecOk(Line(CommitA, Pull \o FastForward)),
      ExecOk(Line(CommitB, Pull \o <<" ", "o">> \o FastForward)),
      ExecOk(Line(CommitB, <<"m", "e", "r", "g", "e", " ", "o">> \o FastForward)),
      ExecOk(CommitB \o <<"\n">>) }

----------------------------------------------------------------------------
(* The background thread and the JoinHandle *)

NotSpawned == [pc |-> "none", result |-> "none"]

\* A handle that is dropped instead of joined: the caller does not wait
join_ready_detached(b) == TRUE

\* JoinHandle::join blocks until the thread has finished
join_ready(b) == b.pc = "done"

\* JoinHandle::join is Err exactly when the thread panicked
join_result(b) == IF b.result = "panicked" THEN "Err" ELSE "Ok"

\* handle.join().unwrap(): a panic of the thread is raised again in the caller
after_join_unwrap(res, next) == IF res = "Err" THEN "panicked" ELSE next

\* `let _ = handle.join();`: the result is discarded, control goes on
after_join(res, next) == next

\* Reading the handle without taking it out of the context
take_keeps(h) == h

\* Option::take leaves None behind
take(h) == 0

----------------------------------------------------------------------------
(* Initial state: no guarded command has been dispatched yet *)

\* No call of load_all_ai_touched_files is under way
IndexIdle ==
    /\ notes = <<>>
    /\ tail = "none"
    /\ ls_tree = [ok |-> FALSE, code |-> 0, stdout |-> <<>>]
    /\ cat_file = [ok |-> FALSE, code |-> 0, stdout |-> <<>>]
    /\ ipc = "idle"
    /\ call_no = 0
    /\ blob_shas = <<>>
    /\ stdin_data = <<>>
    /\ pos = 0
    /\ results = <<>>
    /\ next_content = 1
    /\ all_files = {}
    /\ docs = <<>>
    /\ round_trips = 0
    /\ ret = [kind |-> "none", files |-> {}]
    /\ first_ret = [kind |-> "none", files |-> {}]

HookIdle ==
    /\ inv = 0
    /\ command = "fetch"
    /\ dry_run = FALSE
    /\ pre_command_base_commit = None
    /\ pc = "idle"
    /\ remote = <<>>
    /\ pre_ret = 0
    /\ fetch_authorship_handle = 0
    /\ handle = 0
    /\ bg = NotSpawned
    /\ joins = 0
    /\ exit_status = "running"
    /\ head = None
    /\ reflog = ExecErr
    /\ old_head = None
    /\ new_head = None
    /\ ff = "unset"
    /\ calls = <<>>
    /\ renames = <<>>

Init == HookIdle /\ IndexIdle

----------------------------------------------------------------------------
(* The dispatcher around the hooks: a fresh context per guarded command,   *)
(* PRE, the main command as an external process, then the matching POST.   *)

BeginInvocation ==
    /\ pc \in {"idle", "post_returned"}
    /\ inv < MaxInvocations
    /\ inv' = inv + 1
    /\ \E c \in {"fetch", "pull"}, d \in BOOLEAN, base \in OptCommits :
          /\ command' = c
          /\ dry_run' = d
          /\ pre_command_base_commit' = base
    /\ pc' = "pre_update_check"
    /\ remote' = <<>>
    /\ pre_ret' = 0
    /\ fetch_authorship_handle' = 0
    /\ handle' = 0
    /\ bg' = NotSpawned
    /\ joins' = 0
    /\ exit_status' = "running"
    /\ head' = pre_command_base_commit'
    /\ reflog' = ExecErr
    /\ old_head' = None
    /\ new_head' = None
    /\ ff' = "unset"
    /\ calls' = <<>>
    /\ renames' = <<>>
    /\ UNCHANGED ixvars

\* The dispatcher stores PRE's return value in the context and starts the main command
RecordHandle ==
    /\ pc = "pre_returned"
    /\ fetch_authorship_handle' = pre_ret
    /\ pc' = "main_running"
    /\ UNCHANGED <<ixvars, inv, command, dry_run, pre_command_base_commit, remote, pre_ret,
                   handle, bg, joins, exit_status, head, reflog, old_head, new_head,
                   ff, calls, renames>>

\* The main command ends: its exit status, and what it left in HEAD and the reflog
MainCommandExits ==
    /\ pc = "main_running"
    /\ \E e \in {"success", "failure"}, h \in OptCommits, r \in HookReflogs :
          /\ exit_status' = e
          /\ head' = h
          /\ reflog' = r
    /\ pc' = IF command = "pull" THEN "pull_post_take" ELSE "fetch_post_take"
    /\ UNCHANGED <<ixvars, inv, command, dry_run, pre_command_base_commit, remote, pre_ret,
                   fetch_authorship_handle, handle, bg, joins, old_head, new_head,
                   ff, calls, renames>>

----------------------------------------------------------------------------
(* fetch_pull_pre_command_hook *)

PreFrame == UNCHANGED <<ixvars, inv, command, dry_run, pre_command_base_commit,
                        fetch_authorship_handle, handle, joins, exit_status, head,
                        reflog, old_head, new_head, ff, renames>>

\* upgrade::maybe_schedule_background_update_check();
Pre_update_check ==
    /\ pc = "pre_update_check"
    /\ calls' = Append(calls, "maybe_schedule_background_update_check")
    /\ pc' = "pre_dry_run"
    /\ UNCHANGED <<remote, pre_ret, bg>>
    /\ PreFrame

\* PRE without the early return for a dry run
Pre_dry_run_ignored ==
    /\ pc = "pre_dry_run"
    /\ pre_ret' = pre_ret
    /\ pc' = "pre_flush"
    /\ UNCHANGED <<remote, bg, calls>>
    /\ PreFrame

\* if is_dry_run(..) { return None; }
Pre_dry_run ==
    /\ pc = "pre_dry_run"
    /\ IF dry_run
       THEN pre_ret' = 0 /\ pc' = "pre_returned"
       ELSE pre_ret' = pre_ret /\ pc' = "pre_flush"
    /\ UNCHANGED <<remote, bg, calls>>
    /\ PreFrame

\* crate::observability::spawn_background_flush();
Pre_flush ==
    /\ pc = "pre_flush"
    /\ calls' = Append(calls, "spawn_background_flush")
    /\ pc' = "pre_remote"
    /\ UNCHANGED <<remote, pre_ret, bg>>
    /\ PreFrame

\* PRE going on to spawn the thread when the remote could not be resolved
Pre_remote_unwrap_or_default ==
    /\ pc = "pre_remote"
    /\ calls' = Append(calls, "fetch_remote_from_args")
    /\ \E resolved \in BOOLEAN :
          /\ remote' = IF resolved THEN <<"o">> ELSE <<>>
          /\ pre_ret' = pre_ret
          /\ pc' = "pre_spawn"
    /\ UNCHANGED bg
    /\ PreFrame

\* match fetch_remote_from_args(..) { Ok(remote) => remote, Err(_) => return None }
Pre_remote ==
    /\ pc = "pre_remote"
    /\ calls' = Append(calls, "fetch_remote_from_args")
    /\ \E resolved \in BOOLEAN :
          IF resolved
          THEN remote' = <<"o">> /\ pre_ret' = pre_ret /\ pc' = "pre_spawn"
          ELSE remote' = remote /\ pre_ret' = 0 /\ pc' = "pre_returned"
    /\ UNCHANGED bg
    /\ PreFrame

\* Some(std::thread::spawn(move || { .. }))
\* PRE running the fetch itself before it returns, instead of handing it to a thread
Pre_spawn_waits ==
    /\ pc = "pre_spawn"
    /\ calls' = Append(calls, "thread::spawn")
    /\ \E r \in {"fetched", "fetch_failed", "open_failed"} :
          bg' = [pc |-> "done", result |-> r]
    /\ pre_ret' = inv
    /\ pc' = "pre_returned"
    /\ UNCHANGED remote
    /\ PreFrame

Pre_spawn ==
    /\ pc = "pre_spawn"
    /\ calls' = Append(calls, "thread::spawn")
    /\ bg' = [pc |-> "started", result |-> "none"]
    /\ pre_ret' = inv
    /\ pc' = "pre_returned"
    /\ UNCHANGED remote
    /\ PreFrame

----------------------------------------------------------------------------
(* The closure run by the spawned thread *)

BgFrame == UNCHANGED <<ixvars, inv, command, dry_run, pre_command_base_commit, pc, remote,
                       pre_ret, fetch_authorship_handle, handle, joins, exit_status,
                       head, reflog, old_head, new_head, ff, calls, renames>>

\* if let Ok(repo) = find_repository(&global_args) { .. } else { debug_log(..) }
Bg_find_repository ==
    /\ bg.pc = "started"
    /\ \E opened \in BOOLEAN :
          bg' = IF opened
                THEN [pc |-> "opened", result |-> "none"]
                ELSE [pc |-> "done", result |-> "open_failed"]
    /\ BgFrame

\* if let Err(e) = fetch_authorship_notes(&repo, &remote) { debug_log(..) }
Bg_fetch_authorship_notes ==
    /\ bg.pc = "opened"
    /\ \E fetched \in BOOLEAN :
          bg' = [pc |-> "done",
                 result |-> IF fetched THEN "fetched" ELSE "fetch_failed"]
    /\ BgFrame

\* the closure unwinds: the thread ends and join() will be Err
Bg_panic ==
    /\ bg.pc \in {"started", "opened"}
    /\ bg' = [pc |-> "done", result |-> "panicked"]
    /\ BgFrame

----------------------------------------------------------------------------
(* fetch_pull_post_command_hook *)

PostFrame == UNCHANGED <<ixvars, inv, command, dry_run, pre_command_base_commit, remote,
                         pre_ret, bg, exit_status, head, reflog>>

\* if let Some(handle) = command_hooks_context.fetch_authorship_handle.take()
FetchPost_take ==
    /\ pc = "fetch_post_take"
    /\ handle' = fetch_authorship_handle
    /\ fetch_authorship_handle' = take(fetch_authorship_handle)
    /\ pc' = IF fetch_authorship_handle # 0 THEN "fetch_post_join" ELSE "post_returned"
    /\ UNCHANGED <<joins, old_head, new_head, ff, calls, renames>>
    /\ PostFrame

\* fetch POST with a join that gives up on a thread still running
FetchPost_join_gives_up ==
    /\ pc = "fetch_post_join"
    /\ joins' = joins + 1
    /\ calls' = Append(calls, "join")
    /\ handle' = 0
    /\ pc' = "post_returned"
    /\ UNCHANGED <<fetch_authorship_handle, old_head, new_head, ff, renames>>
    /\ PostFrame

\* let _ = handle.join();
FetchPost_join ==
    /\ pc = "fetch_post_join"
    /\ join_ready(bg)
    /\ joins' = joins + 1
    /\ calls' = Append(calls, "join")
    /\ handle' = 0
    /\ pc' = after_join(join_result(bg), "post_returned")
    /\ UNCHANGED <<fetch_authorship_handle, old_head, new_head, ff, renames>>
    /\ PostFrame

----------------------------------------------------------------------------
(* pull_post_command_hook *)

\* pull POST that takes the handle and drops it without joining
PullPost_take_drops ==
    /\ pc = "pull_post_take"
    /\ handle' = 0
    /\ fetch_authorship_handle' = take(fetch_authorship_handle)
    /\ pc' = "pull_post_exit"
    /\ UNCHANGED <<joins, old_head, new_head, ff, calls, renames>>
    /\ PostFrame

\* if let Some(handle) = command_hooks_context.fetch_authorship_handle.take()
PullPost_take ==
    /\ pc = "pull_post_take"
    /\ handle' = fetch_authorship_handle
    /\ fetch_authorship_handle' = take(fetch_authorship_handle)
    /\ pc' = IF fetch_authorship_handle # 0 THEN "pull_post_join" ELSE "pull_post_exit"
    /\ UNCHANGED <<joins, old_head, new_head, ff, calls, renames>>
    /\ PostFrame

\* let _ = handle.join();
PullPost_join ==
    /\ pc = "pull_post_join"
    /\ join_ready(bg)
    /\ joins' = joins + 1
    /\ calls' = Append(calls, "join")
    /\ handle' = 0
    /\ pc' = after_join(join_result(bg), "pull_post_exit")
    /\ UNCHANGED <<fetch_authorship_handle, old_head, new_head, ff, renames>>
    /\ PostFrame

\* pull POST without the test of the exit status
PullPost_exit_status_ignored ==
    /\ pc = "pull_post_exit"
    /\ pc' = "pull_post_old_head"
    /\ UNCHANGED <<fetch_authorship_handle, handle, joins, old_head, new_head, ff,
                   calls, renames>>
    /\ PostFrame

\* if !exit_status.success() { return; }
PullPost_exit_status ==
    /\ pc = "pull_post_exit"
    /\ pc' = IF exit_status # "success" THEN "post_returned" ELSE "pull_post_old_head"
    /\ UNCHANGED <<fetch_authorship_handle, handle, joins, old_head, new_head, ff,
                   calls, renames>>
    /\ PostFrame

\* match &repository.pre_command_base_commit { Some(sha) => sha.clone(), None => return }
PullPost_old_head ==
    /\ pc = "pull_post_old_head"
    /\ IF pre_command_base_commit = None
       THEN old_head' = old_head /\ pc' = "post_returned"
       ELSE old_head' = pre_command_base_commit /\ pc' = "pull_post_new_head"
    /\ UNCHANGED <<fetch_authorship_handle, handle, joins, new_head, ff, calls,
                   renames>>
    /\ PostFrame

\* match repository.head().ok().and_then(|h| h.target().ok()) { Some(sha) => sha, None => return }
PullPost_new_head ==
    /\ pc = "pull_post_new_head"
    /\ calls' = Append(calls, "head")
    /\ IF head = None
       THEN new_head' = new_head /\ pc' = "post_returned"
       ELSE new_head' = head /\ pc' = "pull_post_compare"
    /\ UNCHANGED <<fetch_authorship_handle, handle, joins, old_head, ff, renames>>
    /\ PostFrame

\* pull POST without the comparison of the two heads
PullPost_compare_skipped ==
    /\ pc = "pull_post_compare"
    /\ pc' = "pull_post_reflog"
    /\ UNCHANGED <<fetch_authorship_handle, handle, joins, old_head, new_head, ff,
                   calls, renames>>
    /\ PostFrame

\* if old_head == new_head { return; }
PullPost_compare ==
    /\ pc = "pull_post_compare"
    /\ pc' = IF old_head = new_head THEN "post_returned" ELSE "pull_post_reflog"
    /\ UNCHANGED <<fetch_authorship_handle, handle, joins, old_head, new_head, ff,
                   calls, renames>>
    /\ PostFrame

\* pull POST with the detector's answer inverted
PullPost_reflog_inverted ==
    /\ pc = "pull_post_reflog"
    /\ calls' = Append(calls, "reflog")
    /\ ff' = was_fast_forward_pull(reflog, new_head)
    /\ pc' = IF ff' THEN "post_returned" ELSE "pull_post_rename"
    /\ UNCHANGED <<fetch_authorship_handle, handle, joins, old_head, new_head,
                   renames>>
    /\ PostFrame

\* if !was_fast_forward_pull(repository, &new_head) { return; }
PullPost_reflog ==
    /\ pc = "pull_post_reflog"
    /\ calls' = Append(calls, "reflog")
    /\ ff' = was_fast_forward_pull(reflog, new_head)
    /\ pc' = IF ~ff' THEN "post_returned" ELSE "pull_post_rename"
    /\ UNCHANGED <<fetch_authorship_handle, handle, joins, old_head, new_head,
                   renames>>
    /\ PostFrame

\* rename_working_log(..).unwrap(): a failed rename ends the hook in a panic
PullPost_rename_unwrap ==
    /\ pc = "pull_post_rename"
    /\ calls' = Append(calls, "rename_working_log")
    /\ \E result \in {"Ok", "Err"} :
          /\ renames' = Append(renames, [from |-> old_head, to |-> new_head,
                                         result |-> result])
          /\ pc' = IF result = "Err" THEN "panicked" ELSE "post_returned"
    /\ UNCHANGED <<fetch_authorship_handle, handle, joins, old_head, new_head, ff>>
    /\ PostFrame

\* let _ = repository.storage.rename_working_log(&old_head, &new_head);
PullPost_rename ==
    /\ pc = "pull_post_rename"
    /\ calls' = Append(calls, "rename_working_log")
    /\ \E result \in {"Ok", "Err"} :
          renames' = Append(renames, [from |-> old_head, to |-> new_head,
                                      result |-> result])
    /\ pc' = "post_returned"
    /\ UNCHANGED <<fetch_authorship_handle, handle, joins, old_head, new_head, ff>>
    /\ PostFrame

----------------------------------------------------------------------------

Next ==
    \/ BeginInvocation
    \/ RecordHandle
    \/ MainCommandExits
    \/ Pre_update_check
    \/ Pre_dry_run
    \/ Pre_flush
    \/ Pre_remote
    \/ Pre_spawn
    \/ Bg_find_repository
    \/ Bg_fetch_authorship_notes
    \/ Bg_panic
    \/ FetchPost_take
    \/ FetchPost_join
    \/ PullPost_take
    \/ PullPost_join
    \/ PullPost_exit_status
    \/ PullPost_old_head
    \/ PullPost_new_head
    \/ PullPost_compare
    \/ PullPost_reflog
    \/ PullPost_rename

Spec == Init /\ [][Next]_vars

----------------------------------------------------------------------------
(* The Fast-Forward Detector on its own: every reflog answer built from    *)
(* the parts below, against every expected head.                           *)

\* n spaces
RECURSIVE Spaces(_)
Spaces(n) == IF n = 0 THEN <<>> ELSE <<" ">> \o Spaces(n - 1)

Leads == { Spaces(n) : n \in 0..MaxPad }

Trails == { Spaces(n) \o <<"\n">> : n \in 0..MaxPad } \cup { <<>>, <<"\r", "\n">> }

ReflogIds == Commits \cup { <<>>, <<"b">>, <<"b", "2", "2">>, <<"b", BadByte>> }

ReflogSeparators == { <<" ">>, <<>>, <<" ", " ">>, <<"\t">> }

ReflogSubjects ==
    { Pull \o FastForward,
      Pull \o <<" ", "o">> \o FastForward,
      Pull \o <<BadByte>> \o FastForward,
      Pull \o FastForward \o <<" ", "x">>,
      Pull \o <<" ", "r">>,
      Pull,
      FastForward,
      <<>>,
      <<"x">> \o Pull \o FastForward,
      <<"P", "u", "l", "l">> \o FastForward,
      <<"m", "e", "r", "g", "e", " ", "o">> \o FastForward }

DetectorReflogs ==
    { ExecErr } \cup
    { ExecOk(l \o id \o sep \o subject \o t) :
        l \in Leads, id \in ReflogIds, sep \in ReflogSeparators,
        subject \in ReflogSubjects, t \in Trails }

DetectorInit ==
    /\ inv = 0
    /\ command = "pull"
    /\ dry_run = FALSE
    /\ pre_command_base_commit = None
    /\ pc = "detector_call"
    /\ remote = <<>>
    /\ pre_ret = 0
    /\ fetch_authorship_handle = 0
    /\ handle = 0
    /\ bg = NotSpawned
    /\ joins = 0
    /\ exit_status = "success"
    /\ head = None
    /\ reflog \in DetectorReflogs
    /\ old_head = None
    /\ new_head \in Commits
    /\ ff = "unset"
    /\ calls = <<>>
    /\ renames = <<>>
    /\ IndexIdle

Detector_call ==
    /\ pc = "detector_call"
    /\ ff' = was_fast_forward_pull(reflog, new_head)
    /\ pc' = "detector_returned"
    /\ UNCHANGED <<ixvars, inv, command, dry_run, pre_command_base_commit, remote, pre_ret,
                   fetch_authorship_handle, handle, bg, joins, exit_status, head,
                   reflog, old_head, new_head, calls, renames>>

NextDetector == Detector_call

SpecDetector == DetectorInit /\ [][NextDetector]_vars

----------------------------------------------------------------------------
(* Properties *)

\* How often c occurs in the call log
Count(log, c) == Cardinality({ i \in 1..Len(log) : log[i] = c })

BgFailures == {"open_failed", "fetch_failed", "panicked"}

\* Positions of the foreground thread on a path that did not panic
NormalPcs ==
    { "idle", "pre_update_check", "pre_dry_run", "pre_flush", "pre_remote",
      "pre_spawn", "pre_returned", "main_running", "fetch_post_take",
      "fetch_post_join", "pull_post_take", "pull_post_join", "pull_post_exit",
      "pull_post_old_head", "pull_post_new_head", "pull_post_compare",
      "pull_post_reflog", "pull_post_rename", "post_returned" }

\* Positions inside one of the two POST hooks
PostPcs ==
    { "fetch_post_take", "fetch_post_join", "pull_post_take", "pull_post_join",
      "pull_post_exit", "pull_post_old_head", "pull_post_new_head",
      "pull_post_compare", "pull_post_reflog", "pull_post_rename" }

\* The rename requests made so far, without their results
Requested == [ i \in 1..Len(renames) |-> [from |-> renames[i].from, to |-> renames[i].to] ]

\* The requests pull POST is to make, from what the main command left behind
ExpectedRequests ==
    IF /\ command = "pull"
       /\ exit_status = "success"
       /\ pre_command_base_commit # None
       /\ head # None
       /\ head # pre_command_base_commit
       /\ was_fast_forward_pull(reflog, head)
    THEN << [from |-> pre_command_base_commit, to |-> head] >>
    ELSE << >>

\* C1: whenever PRE spawned the background notes fetch and its handle was
\* recorded, the thread has finished (its closure completed, failed or
\* panicked) in every state in which the matching POST hook has returned,
\* for fetch and for pull, for a successful and for a failed main command,
\* and for each early return of pull POST.
C1_BackgroundFinishedBeforePostReturns ==
    (pc = "post_returned" /\ pre_ret # 0) => bg.pc = "done"

\* C1 witness: pull POST has returned after a failed pull whose background
\* fetch failed too.
C1_Witness ==
    /\ pc = "post_returned"
    /\ pre_ret # 0
    /\ command = "pull"
    /\ exit_status = "failure"
    /\ bg = [pc |-> "done", result |-> "fetch_failed"]

\* C2: the context and POST's local together never hold more than one
\* handle, at most one thread is spawned and at most one join is made per
\* invocation; once POST has returned the context holds no handle and the
\* number of joins is 1 if PRE returned a handle and 0 if it did not.
C2_HandleJoinedExactlyOnce ==
    /\ (IF fetch_authorship_handle # 0 THEN 1 ELSE 0) + (IF handle # 0 THEN 1 ELSE 0) <= 1
    /\ fetch_authorship_handle \in {0, inv}
    /\ Count(calls, "thread::spawn") <= 1
    /\ joins <= 1
    /\ pc = "post_returned" =>
          /\ fetch_authorship_handle = 0
          /\ handle = 0
          /\ joins = (IF pre_ret # 0 THEN 1 ELSE 0)
          /\ Count(calls, "join") = joins

\* C2 witness: POST has returned, the handle was joined once and is gone
\* from the context.
C2_Witness ==
    /\ pc = "post_returned"
    /\ pre_ret # 0
    /\ joins = 1
    /\ fetch_authorship_handle = 0

\* The calls made by PRE, in order
PreCallNames ==
    { "maybe_schedule_background_update_check", "spawn_background_flush",
      "fetch_remote_from_args", "thread::spawn" }

IsPreCall(c) == c \in PreCallNames

PreCalls == SelectSeq(calls, IsPreCall)

\* PRE has been left (it returned, or the invocation is past it)
PreReturned == pc \in ({"pre_returned", "main_running", "post_returned"} \cup PostPcs)

\* C3, as claimed: under a dry run PRE does nothing at all: when it has
\* returned it has made no call of any kind, returned no handle and spawned
\* no thread.
C3_DryRunPreDoesNothing ==
    (dry_run /\ PreReturned) =>
        /\ pre_ret = 0
        /\ bg = NotSpawned
        /\ PreCalls = << >>

\* C3, amended: under a dry run PRE returns no handle, spawns no thread,
\* does not call spawn_background_flush and does not resolve the remote;
\* the one call it makes, before it tests for the dry run, is
\* maybe_schedule_background_update_check. No handle reaches the context
\* and no thread exists for the rest of the invocation.
C3_DryRunPreOnlySchedulesUpdateCheck ==
    (dry_run /\ PreReturned) =>
        /\ pre_ret = 0
        /\ fetch_authorship_handle = 0
        /\ bg = NotSpawned
        /\ remote = << >>
        /\ PreCalls = << "maybe_schedule_background_update_check" >>

\* C3 witness: PRE has returned under a dry run.
C3_Witness == dry_run /\ pc = "pre_returned"

\* The remote was looked for and not found
RemoteUnresolved ==
    /\ ~dry_run
    /\ PreReturned
    /\ remote = << >>

\* C5: when the invocation is not a dry run and fetch_remote_from_args
\* fails, PRE returns None and spawns no notes-fetch thread, and it returns
\* to the dispatcher, which goes on to run the main command: no handle is
\* in the context, nothing is joined, and the foreground is on the normal
\* path for the rest of the invocation.
C5_UnresolvedRemoteNoHandle ==
    RemoteUnresolved =>
        /\ pre_ret = 0
        /\ fetch_authorship_handle = 0
        /\ bg = NotSpawned
        /\ Count(calls, "thread::spawn") = 0
        /\ joins = 0
        /\ pc \in NormalPcs

\* C5 witness: the remote was not resolved and the main command has run
\* to its end all the same.
C5_Witness ==
    /\ RemoteUnresolved
    /\ Count(calls, "fetch_remote_from_args") = 1
    /\ pc = "post_returned"
    /\ exit_status = "success"

\* C4: a failure of the background notes fetch (the repository could not
\* be reopened, the fetch returned an error, or the thread panicked) is
\* not propagated: every step POST takes once the failed thread has ended
\* leaves the exit status of the main command as it was and keeps the
\* foreground on the normal path, and when POST returns the rename
\* requests are the ones the main command's outcome alone calls for, as
\* they are when the background fetch succeeded.
C4_BackgroundFailureNotPropagated ==
    [][ (pc \in PostPcs /\ bg.pc = "done" /\ bg.result \in BgFailures) =>
            /\ exit_status' = exit_status
            /\ pc' \in NormalPcs
            /\ (pc' = "post_returned" => Requested' = ExpectedRequests') ]_vars

\* C4 witness: the thread panicked, pull POST joined it and went on to
\* request the rename after a fast-forward.
C4_Witness ==
    /\ pc = "post_returned"
    /\ command = "pull"
    /\ joins = 1
    /\ bg.result = "panicked"
    /\ exit_status = "success"
    /\ Len(renames) = 1

\* C6: when pull POST has returned, a Working Log rename has been requested
\* exactly if the main command succeeded, an old head was captured at PRE,
\* the current head is readable and differs from it, and the detector
\* answers true for the current head; it is then requested once, from the
\* old head to the new head. Otherwise nothing is requested; at no time
\* are there more requests than that, and the fetch POST requests none.
C6_RenameExactlyOnConfirmedFastForward ==
    /\ pc = "post_returned" => Requested = ExpectedRequests
    /\ Len(renames) <= Len(ExpectedRequests)
    /\ Count(calls, "rename_working_log") = Len(renames)

\* C6 witness: old head a1, new head b2, reflog line "b2 pull: Fast-forward",
\* and the rename a1 -> b2 has been requested once.
C6_Witness ==
    /\ pc = "post_returned"
    /\ pre_command_base_commit = CommitA
    /\ head = CommitB
    /\ reflog = ExecOk(Line(CommitB, Pull \o FastForward))
    /\ Requested = << [from |-> CommitA, to |-> CommitB] >>

\* C7: after a failed pull, pull POST joins the handle and stops: it reads
\* neither the current head nor the reflog and requests no rename, whatever
\* the head and the reflog are, and the handle PRE returned has been joined
\* when it returns.
C7_FailedPullStopsAfterJoin ==
    (command = "pull" /\ exit_status = "failure") =>
        /\ Count(calls, "head") = 0
        /\ Count(calls, "reflog") = 0
        /\ ff = "unset"
        /\ renames = << >>
        /\ pc \in {"pull_post_take", "pull_post_join", "pull_post_exit", "post_returned"}
        /\ (pc = "post_returned" /\ pre_ret # 0) => joins = 1

\* C7 witness: the pull failed although the head moved from a1 to b2 and
\* the reflog reads as a fast-forward; POST joined the handle and returned.
C7_Witness ==
    /\ command = "pull"
    /\ exit_status = "failure"
    /\ pc = "post_returned"
    /\ joins = 1
    /\ pre_command_base_commit = CommitA
    /\ head = CommitB
    /\ was_fast_forward_pull(reflog, head)

\* C8: after a successful pull that left the head where it was at PRE,
\* pull POST reads no reflog, the detector is not called, and no rename is
\* requested.
C8_UnchangedHeadSkipsDetector ==
    (/\ command = "pull"
     /\ exit_status = "success"
     /\ pre_command_base_commit # None
     /\ head = pre_command_base_commit) =>
        /\ Count(calls, "reflog") = 0
        /\ ff = "unset"
        /\ renames = << >>

\* C8 witness: pull POST has compared the heads, found b2 = b2 and
\* returned, with a reflog that reads as a fast-forward to b2.
C8_Witness ==
    /\ command = "pull"
    /\ exit_status = "success"
    /\ pc = "post_returned"
    /\ Count(calls, "head") = 1
    /\ old_head = CommitB
    /\ new_head = CommitB
    /\ was_fast_forward_pull(reflog, head)

\* C10: when the rename requested after a confirmed fast-forward fails,
\* pull POST has returned on the normal path, the pull's exit status is
\* still success, and the rename was requested once and not again.
C10_RenameFailureSwallowed ==
    (Len(renames) >= 1 /\ renames[1].result = "Err") =>
        /\ pc = "post_returned"
        /\ exit_status = "success"
        /\ Len(renames) = 1
        /\ Count(calls, "rename_working_log") = 1

\* C10 witness: the rename a1 -> b2 failed and pull POST has returned.
C10_Witness ==
    /\ pc = "post_returned"
    /\ renames = << [from |-> CommitA, to |-> CommitB, result |-> "Err"] >>

\* The most recent reflog entry as text: the command's output decoded, with
\* the line terminator and any other surrounding white space left out
EntryOf(bytes) ==
    LET text == [ i \in 1..Len(bytes) |->
                    IF bytes[i] = BadByte THEN Replacement ELSE bytes[i] ]
        solid == { i \in 1..Len(text) : text[i] \notin WhiteSpace }
    IN  IF solid = {} THEN << >>
        ELSE LET lo == CHOOSE i \in solid : \A j \in solid : i <= j
                 hi == CHOOSE i \in solid : \A j \in solid : j <= i
             IN  [ k \in 1..(hi - lo + 1) |-> text[lo + k - 1] ]

\* entry = id ' ' subject at its first space, id is the expected head,
\* subject begins with "pull" and ends with ": Fast-forward"
IsFastForwardEntry(entry, expected) ==
    \E i \in 1..Len(entry) :
        /\ entry[i] = " "
        /\ \A j \in 1..(i - 1) : entry[j] # " "
        /\ i - 1 = Len(expected)
        /\ \A j \in 1..(i - 1) : entry[j] = expected[j]
        /\ LET n == Len(entry) - i
           IN  /\ n >= Len(Pull)
               /\ \A k \in 1..Len(Pull) : entry[i + k] = Pull[k]
               /\ n >= Len(FastForward)
               /\ \A k \in 1..Len(FastForward) :
                     entry[Len(entry) - Len(FastForward) + k] = FastForward[k]

\* C9: for every expected new head and every answer of the reflog command,
\* the detector returns a boolean, and it returns true exactly when the
\* command succeeded and its entry splits at the first space into an id
\* equal to the expected head and a subject that starts with "pull" and
\* ends with ": Fast-forward"; a failed command and an entry without a
\* space give false.
C9_DetectorTrueIffFastForwardEntry ==
    pc = "detector_returned" =>
        /\ ff \in BOOLEAN
        /\ ff = (reflog.ok /\ IsFastForwardEntry(EntryOf(reflog.stdout), new_head))
        /\ ~reflog.ok => ff = FALSE
        /\ (\A i \in 1..Len(EntryOf(reflog.stdout)) : EntryOf(reflog.stdout)[i] # " ")
              => ff = FALSE

\* C9 witness: the detector answered true for the output
\* "b2 pull o: Fast-forward\n" and the expected head b2.
C9_Witness ==
    /\ pc = "detector_returned"
    /\ new_head = CommitB
    /\ reflog = ExecOk(Line(CommitB, Pull \o <<" ", "o">> \o FastForward))
    /\ ff = TRUE

----------------------------------------------------------------------------
(* Authorship traversal (src/src/git/authorship_traversal.rs):             *)
(* get_note_blob_shas, batch_read_blobs, parse_cat_file_batch_output,      *)
(* extract_file_paths_from_note and load_all_ai_touched_files_sync.        *)
(* A byte is a one-character string; BadByte is a byte no UTF-8 text holds.*)

MaxNotes == 2

\* usize is UsizeBits wide
UsizeBits == 8
UsizeMax == 2 ^ UsizeBits - 1

\* exit code of `git ls-tree` when refs/notes/ai does not exist
RefNotFoundCode == 128

\* std::str::from_utf8 succeeds
is_utf8(bytes) == \A i \in 1..Len(bytes) : bytes[i] # BadByte

RECURSIVE SplitWs(_, _, _)
SplitWs(s, cur, acc) ==
    IF s = <<>> THEN (IF cur = <<>> THEN acc ELSE Append(acc, cur))
    ELSE IF Head(s) \in WhiteSpace
         THEN SplitWs(Tail(s), <<>>, IF cur = <<>> THEN acc ELSE Append(acc, cur))
         ELSE SplitWs(Tail(s), Append(cur, Head(s)), acc)

\* str::split_whitespace
split_whitespace(s) == SplitWs(s, <<>>, <<>>)

\* a line without the "\r" of a "\r\n" ending
StripCr(l) == IF l # <<>> /\ l[Len(l)] = "\r" THEN SubSeq(l, 1, Len(l) - 1) ELSE l

RECURSIVE LinesAcc(_, _, _)
LinesAcc(s, cur, acc) ==
    IF s = <<>> THEN (IF cur = <<>> THEN acc ELSE Append(acc, cur))
    ELSE IF Head(s) = "\n"
         THEN LinesAcc(Tail(s), <<>>, Append(acc, StripCr(cur)))
         ELSE LinesAcc(Tail(s), Append(cur, Head(s)), acc)

\* str::lines
lines(s) == LinesAcc(s, <<>>, <<>>)

Digits == <<"0", "1", "2", "3", "4", "5", "6", "7", "8", "9">>

IsDigit(c) == \E d \in 1..Len(Digits) : Digits[d] = c

DigitValue(c) == (CHOOSE d \in 1..Len(Digits) : Digits[d] = c) - 1

RECURSIVE DecimalValue(_, _)
DecimalValue(field, acc) ==
    IF field = <<>> THEN acc
    ELSE IF acc * 10 + DigitValue(Head(field)) > UsizeMax THEN -1
    ELSE DecimalValue(Tail(field), acc * 10 + DigitValue(Head(field)))

\* str::parse::<usize>: the value, or -1 for Err (empty, not a digit, too large)
parse_usize(field) ==
    LET digits == IF field # <<>> /\ Head(field) = "+" THEN Tail(field) ELSE field
    IN  IF digits = <<>> \/ \E i \in 1..Len(digits) : ~IsDigit(digits[i]) THEN -1
        ELSE DecimalValue(digits, 0)

\* str::find: the 0-based byte offset of the first occurrence of pat, -1 for None
RECURSIVE FindFrom(_, _, _)
FindFrom(s, pat, i) ==
    IF i + Len(pat) > Len(s) THEN -1
    ELSE IF SubSeq(s, i + 1, i + Len(pat)) = pat THEN i
    ELSE FindFrom(s, pat, i + 1)

find(s, pat) == FindFrom(s, pat, 0)

\* split('\t').next(): the text before the first tab
RECURSIVE BeforeTab(_)
BeforeTab(s) ==
    IF s = <<>> \/ Head(s) = "\t" THEN <<>> ELSE <<Head(s)>> \o BeforeTab(Tail(s))

----------------------------------------------------------------------------
(* get_note_blob_shas *)

\* the object ids of the lines of the ls-tree output, in order
RECURSIVE ShasOfLines(_)
ShasOfLines(ls) ==
    IF ls = <<>> THEN <<>>
    ELSE LET line == Head(ls)
             parts == split_whitespace(line)
         IN  (IF line # <<>> /\ Len(parts) >= 3
              THEN << BeforeTab(parts[3]) >>
              ELSE << >>)
             \o ShasOfLines(Tail(ls))

\* an enumerator that takes every failure of ls-tree for a missing ref
get_note_blob_shas_any_failure(res) ==
    IF ~res.ok
    THEN [kind |-> "ok", shas |-> <<>>]
    ELSE IF ~is_utf8(res.stdout)
         THEN [kind |-> "err", shas |-> <<>>]
         ELSE [kind |-> "ok", shas |-> ShasOfLines(lines(res.stdout))]

\* an enumerator with no arm for the exit code of a missing ref
get_note_blob_shas_propagates(res) ==
    IF ~res.ok
    THEN [kind |-> "err", shas |-> <<>>]
    ELSE IF ~is_utf8(res.stdout)
         THEN [kind |-> "err", shas |-> <<>>]
         ELSE [kind |-> "ok", shas |-> ShasOfLines(lines(res.stdout))]

get_note_blob_shas(res) ==
    IF ~res.ok
    THEN IF res.code = RefNotFoundCode
         THEN [kind |-> "ok", shas |-> <<>>]
         ELSE [kind |-> "err", shas |-> <<>>]
    ELSE IF ~is_utf8(res.stdout)
         THEN [kind |-> "err", shas |-> <<>>]
         ELSE [kind |-> "ok", shas |-> ShasOfLines(lines(res.stdout))]

----------------------------------------------------------------------------
(* parse_cat_file_batch_output *)

\* data[pos..].iter().position(|&b| b == b'\n'): offset of the next line feed, -1 for None
RECURSIVE header_end_from(_, _)
header_end_from(data, i) ==
    IF i >= Len(data) THEN -1
    ELSE IF data[i + 1] = "\n" THEN i
    ELSE header_end_from(data, i + 1)

Missing == <<"m", "i", "s", "s", "i", "n", "g">>

\* a parser whose `continue` of a skipped header leaves pos where it was
parse_step_skip_stays(data, p, res) ==
    LET header_end == header_end_from(data, p)
    IN  IF header_end = -1 THEN [kind |-> "break", pos |-> p, results |-> res]
        ELSE
        LET header == SubSeq(data, p + 1, header_end)
            parts == split_whitespace(header)
            skip == [kind |-> "continue", pos |-> p, results |-> res]
        IN  IF ~is_utf8(header) THEN [kind |-> "err", pos |-> p, results |-> res]
            ELSE IF Len(parts) < 2 THEN skip
            ELSE IF parts[2] = Missing THEN skip
            ELSE IF Len(parts) < 3 THEN skip
            ELSE
            LET size == parse_usize(parts[3])
                content_start == header_end + 1
                content_end == content_start + size
            IN  IF size = -1 THEN [kind |-> "err", pos |-> p, results |-> res]
                ELSE IF content_end > UsizeMax
                     THEN [kind |-> "panic", pos |-> p, results |-> res]
                ELSE IF content_end > Len(data)
                     THEN [kind |-> "break", pos |-> p, results |-> res]
                ELSE LET content == SubSeq(data, content_start + 1, content_end)
                     IN  [kind |-> "continue",
                          pos |-> content_end + 1,
                          results |-> IF is_utf8(content) THEN Append(res, content)
                                      ELSE res]

\* a parser that takes a missing object for the end of the stream
parse_step_missing_ends(data, p, res) ==
    LET header_end == header_end_from(data, p)
    IN  IF header_end = -1 THEN [kind |-> "break", pos |-> p, results |-> res]
        ELSE
        LET header == SubSeq(data, p + 1, header_end)
            parts == split_whitespace(header)
            skip == [kind |-> "continue", pos |-> header_end + 1, results |-> res]
        IN  IF ~is_utf8(header) THEN [kind |-> "err", pos |-> p, results |-> res]
            ELSE IF Len(parts) < 2 THEN skip
            ELSE IF parts[2] = Missing THEN [kind |-> "break", pos |-> p, results |-> res]
            ELSE IF Len(parts) < 3 THEN skip
            ELSE
            LET size == parse_usize(parts[3])
                content_start == header_end + 1
                content_end == content_start + size
            IN  IF size = -1 THEN [kind |-> "err", pos |-> p, results |-> res]
                ELSE IF content_end > UsizeMax
                     THEN [kind |-> "panic", pos |-> p, results |-> res]
                ELSE IF content_end > Len(data)
                     THEN [kind |-> "break", pos |-> p, results |-> res]
                ELSE LET content == SubSeq(data, content_start + 1, content_end)
                     IN  [kind |-> "continue",
                          pos |-> content_end + 1,
                          results |-> IF is_utf8(content) THEN Append(res, content)
                                      ELSE res]

\* a parser that returns Err for a content that is not UTF-8
parse_step_undecodable_err(data, p, res) ==
    LET header_end == header_end_from(data, p)
    IN  IF header_end = -1 THEN [kind |-> "break", pos |-> p, results |-> res]
        ELSE
        LET header == SubSeq(data, p + 1, header_end)
            parts == split_whitespace(header)
            skip == [kind |-> "continue", pos |-> header_end + 1, results |-> res]
        IN  IF ~is_utf8(header) THEN [kind |-> "err", pos |-> p, results |-> res]
            ELSE IF Len(parts) < 2 THEN skip
            ELSE IF parts[2] = Missing THEN skip
            ELSE IF Len(parts) < 3 THEN skip
            ELSE
            LET size == parse_usize(parts[3])
                content_start == header_end + 1
                content_end == content_start + size
            IN  IF size = -1 THEN [kind |-> "err", pos |-> p, results |-> res]
                ELSE IF content_end > UsizeMax
                     THEN [kind |-> "panic", pos |-> p, results |-> res]
                ELSE IF content_end > Len(data)
                     THEN [kind |-> "break", pos |-> p, results |-> res]
                ELSE LET content == SubSeq(data, content_start + 1, content_end)
                     IN  IF ~is_utf8(content)
                         THEN [kind |-> "err", pos |-> p, results |-> res]
                         ELSE [kind |-> "continue",
                               pos |-> content_end + 1,
                               results |-> Append(res, content)]

\* One iteration of the `while pos < data.len()` loop, entered with p < Len(data).
\* When content_start + size exceeds usize the addition panics where overflow is
\* checked, and where it wraps content_end is below content_start and the slice
\* data[content_start..content_end] panics: "panic" on every build.
parse_step(data, p, res) ==
    LET header_end == header_end_from(data, p)
    IN  IF header_end = -1 THEN [kind |-> "break", pos |-> p, results |-> res]
        ELSE
        LET header == SubSeq(data, p + 1, header_end)
            parts == split_whitespace(header)
            skip == [kind |-> "continue", pos |-> header_end + 1, results |-> res]
        IN  IF ~is_utf8(header) THEN [kind |-> "err", pos |-> p, results |-> res]
            ELSE IF Len(parts) < 2 THEN skip
            ELSE IF parts[2] = Missing THEN skip
            ELSE IF Len(parts) < 3 THEN skip
            ELSE
            LET size == parse_usize(parts[3])
                content_start == header_end + 1
                content_end == content_start + size
            IN  IF size = -1 THEN [kind |-> "err", pos |-> p, results |-> res]
                ELSE IF content_end > UsizeMax
                     THEN [kind |-> "panic", pos |-> p, results |-> res]
                ELSE IF content_end > Len(data)
                     THEN [kind |-> "break", pos |-> p, results |-> res]
                ELSE LET content == SubSeq(data, content_start + 1, content_end)
                     IN  [kind |-> "continue",
                          pos |-> content_end + 1,
                          results |-> IF is_utf8(content) THEN Append(res, content)
                                      ELSE res]

\* The whole loop: [kind |-> "ok" | "err" | "panic", results]
RECURSIVE parse_loop(_, _, _)
parse_loop(data, p, res) ==
    IF ~(p < Len(data)) THEN [kind |-> "ok", results |-> res]
    ELSE LET st == parse_step(data, p, res)
         IN  IF st.kind = "continue" THEN parse_loop(data, st.pos, st.results)
             ELSE IF st.kind = "break" THEN [kind |-> "ok", results |-> res]
             ELSE [kind |-> st.kind, results |-> <<>>]

parse_cat_file_batch_output(data) == parse_loop(data, 0, <<>>)

----------------------------------------------------------------------------
(* extract_file_paths_from_note, and the schema parser it delegates to *)

Hyphens == <<"-", "-", "-">>

\* "\n---\n"
Divider == <<"\n">> \o Hyphens \o <<"\n">>

\* {"schema_version":"authorship/3.0.0","base_commit_sha":"","prompts":{}}, as one symbol
MinimalMetadata == "{\"schema_version\":\"authorship/3.0.0\",\"base_commit_sha\":\"\",\"prompts\":{}}"

\* a metadata document as stored in a note, as one symbol
StoredMetadata == "{\"schema_version\":\"authorship/3.0.0\",\"base_commit_sha\":\"c\",\"prompts\":{\"p\":1}}"

\* text split at every "\n", empty pieces kept
RECURSIVE SplitLf(_, _, _)
SplitLf(s, cur, acc) ==
    IF s = <<>> THEN Append(acc, cur)
    ELSE IF Head(s) = "\n" THEN SplitLf(Tail(s), <<>>, Append(acc, cur))
    ELSE SplitLf(Tail(s), Append(cur, Head(s)), acc)

\* index of the first line that is exactly "---", 0 when there is none
FirstDividerLine(ls) ==
    IF \E i \in 1..Len(ls) : ls[i] = Hyphens
    THEN CHOOSE i \in 1..Len(ls) : ls[i] = Hyphens /\ \A j \in 1..(i - 1) : ls[j] # Hyphens
    ELSE 0

RECURSIVE PathsOfLines(_)
PathsOfLines(ls) ==
    IF ls = <<>> THEN <<>>
    ELSE (IF Head(ls) # <<>> /\ Head(Head(ls)) # " " THEN << Head(ls) >> ELSE << >>)
         \o PathsOfLines(Tail(ls))

\* AuthorshipLog::deserialize_from_string: the attestation section is the lines
\* before the first "---" line, a file path on every line that is not indented;
\* a document without divider or without metadata, or with a section line of a
\* schema it does not know ("!"), is malformed.
deserialize_from_string(doc) ==
    LET ls == SplitLf(doc, <<>>, <<>>)
        d == FirstDividerLine(ls)
        section == SubSeq(ls, 1, d - 1)
        metadata == SubSeq(ls, d + 1, Len(ls))
    IN  IF d = 0 \/ metadata = <<>> \/ metadata = << <<>> >>
           \/ \E i \in 1..Len(section) : section[i] # <<>> /\ section[i][1] = "!"
        THEN [ok |-> FALSE, file_paths |-> <<>>]
        ELSE [ok |-> TRUE, file_paths |-> PathsOfLines(section)]

\* content.find("\n---\n"): byte offset of the divider, -1 when there is none
divider_pos(content) == find(content, Divider)

\* format!("{}\n---\n{..}", attestation_section), when a divider was found
parseable(content) ==
    SubSeq(content, 1, divider_pos(content)) \o Divider \o << MinimalMetadata >>

\* what extract_file_paths_from_note leaves: the set, and the documents it handed
\* to the parser
Extracted(kind, files, handed) == [kind |-> kind, files |-> files, handed |-> handed]

PathSet(log) == { log.file_paths[i] : i \in 1..Len(log.file_paths) }

\* an extractor that keeps only the paths of the note at hand
extract_overwrites(content, files) ==
    IF divider_pos(content) = -1 THEN Extracted("ok", files, <<>>)
    ELSE LET log == deserialize_from_string(parseable(content))
         IN  IF log.ok
             THEN Extracted("ok", PathSet(log), << parseable(content) >>)
             ELSE Extracted("ok", files, << parseable(content) >>)

\* an extractor without the `if let Ok(log)`: a note the parser rejects ends the traversal
extract_unwrap(content, files) ==
    IF divider_pos(content) = -1 THEN Extracted("ok", files, <<>>)
    ELSE LET log == deserialize_from_string(parseable(content))
         IN  IF log.ok
             THEN Extracted("ok", files \cup PathSet(log), << parseable(content) >>)
             ELSE Extracted("panic", files, << parseable(content) >>)

\* an extractor that takes a payload without divider for an attestation section
extract_whole_payload(content, files) ==
    LET doc == IF divider_pos(content) = -1
               THEN content \o Divider \o << MinimalMetadata >>
               ELSE parseable(content)
        log == deserialize_from_string(doc)
    IN  IF log.ok
        THEN Extracted("ok", files \cup PathSet(log), << doc >>)
        ELSE Extracted("ok", files, << doc >>)

\* extract_file_paths_from_note(content, &mut files)
extract_file_paths_from_note(content, files) ==
    IF divider_pos(content) = -1 THEN Extracted("ok", files, <<>>)
    ELSE LET log == deserialize_from_string(parseable(content))
         IN  IF log.ok
             THEN Extracted("ok", files \cup PathSet(log), << parseable(content) >>)
             ELSE Extracted("ok", files, << parseable(content) >>)

----------------------------------------------------------------------------
(* The repository behind the two subprocesses *)

NoteKinds ==
    { "f", "fg", "nodivider", "badschema", "divider_first", "divider_last",
      "undecodable", "empty", "missing", "badsize", "onefield", "twofields",
      "badheader", "huge", "blank" }

\* kinds whose record carries a content of the announced size
ContentKinds ==
    { "f", "fg", "nodivider", "badschema", "divider_first", "divider_last",
      "undecodable", "empty" }

\* the payload of a note of each kind
Content(kind) ==
    CASE kind = "f" -> <<"f">> \o Divider \o << StoredMetadata >>
      [] kind = "fg" -> <<"f", "\n", " ", "h", "\n", "g">> \o Divider \o << StoredMetadata >>
      [] kind = "nodivider" -> <<"k", "\n", StoredMetadata>>
      [] kind = "badschema" -> <<"!", "\n", "w">> \o Divider \o << StoredMetadata >>
      [] kind = "divider_first" -> Hyphens \o <<"\n", StoredMetadata>>
      [] kind = "divider_last" -> <<"l", "\n">> \o Hyphens
      [] kind = "undecodable" -> <<"u", BadByte>> \o Divider \o << StoredMetadata >>
      [] OTHER -> << >>

RECURSIVE ToDecimal(_)
ToDecimal(n) ==
    IF n < 10 THEN << Digits[n + 1] >>
    ELSE ToDecimal(n \div 10) \o << Digits[(n % 10) + 1] >>

Sha(i) == <<"s">> \o ToDecimal(i)

Blob == <<"b", "l", "o", "b">>

\* header of a record announcing n content bytes
Header(i, n) == Sha(i) \o <<" ">> \o Blob \o <<" ">> \o ToDecimal(n) \o <<"\n">>

\* the bytes cat-file --batch writes for object i
Record(kind, i) ==
    CASE kind \in ContentKinds -> Header(i, Len(Content(kind))) \o Content(kind) \o <<"\n">>
      [] kind = "missing" -> Sha(i) \o <<" ">> \o Missing \o <<"\n">>
      [] kind = "badsize" -> Sha(i) \o <<" ">> \o Blob \o <<" ", "z", "z", "\n">>
      [] kind = "onefield" -> Sha(i) \o <<"\n">>
      [] kind = "blank" -> <<"\n">>
      [] kind = "twofields" -> Sha(i) \o <<" ">> \o Blob \o <<"\n">>
      [] kind = "badheader" -> Sha(i) \o << BadByte >> \o <<" ">> \o Blob \o <<" ", "1", "\n", "f", "\n">>
      [] OTHER -> Header(i, UsizeMax)

RECURSIVE Records(_, _)
Records(ks, i) ==
    IF ks = <<>> THEN <<>> ELSE Record(Head(ks), i) \o Records(Tail(ks), i + 1)

\* one line of `git ls-tree -r refs/notes/ai` for object i
TreeLine(i) ==
    <<"1", "0", "0", "6", "4", "4", " ">> \o Blob \o <<" ">> \o Sha(i)
        \o <<"\t", "c">> \o ToDecimal(i) \o <<"\n">>

RECURSIVE TreeLines(_, _)
TreeLines(n, i) == IF i > n THEN <<>> ELSE TreeLine(i) \o TreeLines(n, i + 1)

\* how the batch output ends: after a complete record, or with the record of one
\* more note cut inside its header, inside its content, or before its final "\n"
Tails == { "none", "header_cut", "content_cut", "no_final_lf" }

TailBytes(t, i) ==
    LET rec == Record("fg", i)
    IN  CASE t = "header_cut" -> SubSeq(rec, 1, Len(Sha(i)) + 3)
          [] t = "content_cut" -> SubSeq(rec, 1, Len(Header(i, Len(Content("fg")))) + 3)
          [] t = "no_final_lf" -> SubSeq(rec, 1, Len(rec) - 1)
          [] OTHER -> << >>

\* number of objects the tree lists
Listed(ns, t) == Len(ns) + (IF t = "none" THEN 0 ELSE 1)

\* GitCliError { code: None, .. }, or an error of another variant
NoCode == -1

ExecModes ==
    { "ok", "no_ref", "ls_failed", "ls_usage", "ls_no_code", "ls_not_utf8", "cat_failed" }

Exec(ok, code, bytes) == [ok |-> ok, code |-> code, stdout |-> bytes]

LsTreeOf(ns, t, mode) ==
    CASE mode = "no_ref" -> Exec(FALSE, RefNotFoundCode, <<>>)
      [] mode = "ls_failed" -> Exec(FALSE, 1, <<>>)
      [] mode = "ls_usage" -> Exec(FALSE, RefNotFoundCode + 1, <<>>)
      [] mode = "ls_no_code" -> Exec(FALSE, NoCode, <<>>)
      [] mode = "ls_not_utf8" -> Exec(TRUE, 0, TreeLines(Listed(ns, t), 1) \o << BadByte, "\n" >>)
      [] OTHER -> Exec(TRUE, 0, TreeLines(Listed(ns, t), 1))

\* the batch output for the notes ns followed by the tail t
Stream(ns, t) == Records(ns, 1) \o TailBytes(t, Len(ns) + 1)

CatFileOf(ns, t, mode) ==
    IF mode = "cat_failed" THEN Exec(FALSE, 1, <<>>)
    ELSE Exec(TRUE, 0, Stream(ns, t))

NoteSeqs == UNION { [1..n -> NoteKinds] : n \in 0..MaxNotes }


----------------------------------------------------------------------------
(* load_all_ai_touched_files, called twice on the same repository *)

NoResult == [kind |-> "none", files |-> {}]

IndexInit ==
    /\ HookIdle
    /\ notes \in NoteSeqs
    /\ tail \in Tails
    /\ \E mode \in ExecModes :
          /\ ls_tree = LsTreeOf(notes, tail, mode)
          /\ cat_file = CatFileOf(notes, tail, mode)
    /\ ipc = "enumerate"
    /\ call_no = 1
    /\ blob_shas = <<>>
    /\ stdin_data = <<>>
    /\ pos = 0
    /\ results = <<>>
    /\ next_content = 1
    /\ all_files = {}
    /\ docs = <<>>
    /\ round_trips = 0
    /\ ret = NoResult
    /\ first_ret = NoResult

IxFrame == UNCHANGED <<hookvars, notes, tail, ls_tree, cat_file, call_no, first_ret>>

\* let blob_shas = get_note_blob_shas(global_args)?;
Ix_enumerate ==
    /\ ipc = "enumerate"
    /\ LET r == get_note_blob_shas(ls_tree)
       IN  IF r.kind = "err"
           THEN /\ ret' = [kind |-> "err", files |-> {}]
                /\ ipc' = "returned"
                /\ blob_shas' = blob_shas
           ELSE /\ blob_shas' = r.shas
                /\ ipc' = "check_empty"
                /\ ret' = ret
    /\ UNCHANGED <<stdin_data, pos, results, next_content, all_files, docs, round_trips>>
    /\ IxFrame

\* a pipeline without the early return on an empty list
Ix_check_empty_skipped ==
    /\ ipc = "check_empty"
    /\ ipc' = "batch_read"
    /\ UNCHANGED <<ret, blob_shas, stdin_data, pos, results, next_content, all_files, docs,
                   round_trips>>
    /\ IxFrame

\* if blob_shas.is_empty() { return Ok(HashSet::new()); }
Ix_check_empty ==
    /\ ipc = "check_empty"
    /\ IF blob_shas = <<>>
       THEN ret' = [kind |-> "ok", files |-> {}] /\ ipc' = "returned"
       ELSE ret' = ret /\ ipc' = "batch_read"
    /\ UNCHANGED <<blob_shas, stdin_data, pos, results, next_content, all_files, docs,
                   round_trips>>
    /\ IxFrame

\* blob_shas.join("\n") + "\n"
RECURSIVE JoinLf(_)
JoinLf(shas) ==
    IF shas = <<>> THEN <<"\n">>
    ELSE IF Len(shas) = 1 THEN Head(shas) \o <<"\n">>
    ELSE Head(shas) \o <<"\n">> \o JoinLf(Tail(shas))

\* a parser that goes on from where the last call stopped
parse_start_kept(p) == p

\* let mut pos = 0;
parse_start(p) == 0

\* batch_read_blobs up to the call of parse_cat_file_batch_output
Ix_batch_read ==
    /\ ipc = "batch_read"
    /\ IF blob_shas = <<>>
       THEN /\ results' = <<>>
            /\ ipc' = "extract"
            /\ UNCHANGED <<stdin_data, round_trips, ret, pos>>
       ELSE /\ stdin_data' = JoinLf(blob_shas)
            /\ round_trips' = round_trips + 1
            /\ IF ~cat_file.ok
               THEN /\ ret' = [kind |-> "err", files |-> {}]
                    /\ ipc' = "returned"
                    /\ UNCHANGED <<pos, results>>
               ELSE /\ results' = <<>>
                    /\ pos' = parse_start(pos)
                    /\ ipc' = "parse"
                    /\ ret' = ret
    /\ next_content' = 1
    /\ all_files' = {}
    /\ UNCHANGED <<blob_shas, docs>>
    /\ IxFrame

\* one turn of the loop of parse_cat_file_batch_output, or its end
Ix_parse ==
    /\ ipc = "parse"
    /\ IF ~(pos < Len(cat_file.stdout))
       THEN ipc' = "extract" /\ UNCHANGED <<pos, results, ret>>
       ELSE LET st == parse_step(cat_file.stdout, pos, results)
            IN  CASE st.kind = "continue" ->
                       pos' = st.pos /\ results' = st.results /\ ipc' = "parse" /\ ret' = ret
                  [] st.kind = "break" ->
                       ipc' = "extract" /\ UNCHANGED <<pos, results, ret>>
                  [] OTHER ->
                       /\ ret' = [kind |-> st.kind, files |-> {}]
                       /\ ipc' = "returned"
                       /\ UNCHANGED <<pos, results>>
    /\ UNCHANGED <<blob_shas, stdin_data, next_content, all_files, docs, round_trips>>
    /\ IxFrame

\* for content in blob_contents { extract_file_paths_from_note(..) }  Ok(all_files)
Ix_extract ==
    /\ ipc = "extract"
    /\ IF next_content > Len(results)
       THEN /\ ret' = [kind |-> "ok", files |-> all_files]
            /\ ipc' = "returned"
            /\ UNCHANGED <<next_content, all_files, docs>>
       ELSE LET content == results[next_content]
                e == extract_file_paths_from_note(content, all_files)
            IN  /\ docs' = docs \o e.handed
                /\ all_files' = e.files
                /\ next_content' = next_content + 1
                /\ IF e.kind = "ok"
                   THEN ipc' = "extract" /\ ret' = ret
                   ELSE ipc' = "returned" /\ ret' = [kind |-> e.kind, files |-> {}]
    /\ UNCHANGED <<blob_shas, stdin_data, pos, results, round_trips>>
    /\ IxFrame

\* the caller calls load_all_ai_touched_files again, nothing written in between
Ix_call_again ==
    /\ ipc = "returned"
    /\ ret.kind # "panic"
    /\ call_no = 1
    /\ call_no' = 2
    /\ first_ret' = ret
    /\ ret' = NoResult
    /\ docs' = <<>>
    /\ round_trips' = 0
    /\ ipc' = "enumerate"
    /\ UNCHANGED <<hookvars, notes, tail, ls_tree, cat_file, blob_shas, stdin_data, pos,
                   results, next_content, all_files>>

NextIndex ==
    \/ Ix_enumerate
    \/ Ix_check_empty
    \/ Ix_batch_read
    \/ Ix_parse
    \/ Ix_extract
    \/ Ix_call_again

SpecIndex == IndexInit /\ [][NextIndex]_vars

----------------------------------------------------------------------------
(* Claims about the traversal *)

Returned == ipc = "returned"

EmptyIndex == [kind |-> "ok", files |-> {}]

\* the enumeration subprocess failed with the exit code of a missing ref
NamespaceMissing == ~ls_tree.ok /\ ls_tree.code = RefNotFoundCode

\* C11: when the notes namespace does not exist (the enumeration subprocess fails
\* with exit code 128), the enumerator returns an empty list and
\* load_all_ai_touched_files returns an empty set and no error, without a batch read.
C11_NoNamespaceGivesEmptySet ==
    NamespaceMissing =>
        /\ ipc # "enumerate" => blob_shas = <<>>
        /\ Returned => ret = EmptyIndex /\ round_trips = 0

C11_Witness ==
    /\ NamespaceMissing
    /\ notes # <<>>
    /\ Returned
    /\ ret = EmptyIndex

\* both subprocesses succeeded and the batch output ends after a complete record
Healthy == ls_tree.ok /\ is_utf8(ls_tree.stdout) /\ cat_file.ok /\ tail = "none"

\* the file paths a note of each kind attests
AttestedPaths(kind) ==
    CASE kind = "f" -> { <<"f">> }
      [] kind = "fg" -> { <<"f">>, <<"g">> }
      [] OTHER -> {}

ValidKinds == { "f", "fg" }

AllValid(ns) == \A i \in 1..Len(ns) : ns[i] \in ValidKinds

PathsOfNotes(ns) == UNION { AttestedPaths(ns[i]) : i \in 1..Len(ns) }

\* C12: when every stored note is valid, the index returned is exactly the set of
\* the file paths the notes attest: each path of each note, no other path, a path
\* that several notes repeat once.
C12_IndexIsExactlyThePathsOfValidNotes ==
    (Healthy /\ AllValid(notes) /\ Returned) =>
        ret = [kind |-> "ok", files |-> PathsOfNotes(notes)]

\* two notes repeat the path f, one of them adds g
C12_Witness ==
    /\ Healthy
    /\ notes = << "fg", "f" >>
    /\ Returned
    /\ ret = [kind |-> "ok", files |-> { <<"f">>, <<"g">> }]

\* exec_git or exec_git_stdin itself returned Err
SubprocessFailed == ~ls_tree.ok \/ ~cat_file.ok

\* C13: load_all_ai_touched_files returns an error only when the enumeration or the
\* batch-read subprocess itself fails; for every byte stream they return
\* successfully, whatever a record or a note holds, it returns a set and no error.
C13_ErrorOnlyWhenSubprocessFails ==
    (Returned /\ ~SubprocessFailed) => ret.kind = "ok"

\* the batch output without the records of kind k, its tail included
RECURSIVE RecordsWithout(_, _, _)
RecordsWithout(ks, i, k) ==
    IF ks = <<>> THEN TailBytes(tail, i)
    ELSE (IF Head(ks) = k THEN <<>> ELSE Record(Head(ks), i))
         \o RecordsWithout(Tail(ks), i + 1, k)

HasKind(ns, k) == \E i \in 1..Len(ns) : ns[i] = k

\* the batch was read and the parser has returned Ok
Parsed == cat_file.ok /\ ipc = "extract"

\* the batch was read and the parser has ended the call with Err or a panic
ParseFailed == cat_file.ok /\ Returned /\ round_trips = 1 /\ ret.kind # "ok"

\* C14: a record "<object-id> missing" produces no entry and consumes only its own
\* header line: the parser's outcome on a stream is its outcome on the stream with
\* every missing record removed.
C14_MissingRecordsChangeNothing ==
    LET without == parse_cat_file_batch_output(RecordsWithout(notes, 1, "missing"))
    IN  /\ Parsed => without.kind = "ok" /\ results = without.results
        /\ ParseFailed => without.kind = ret.kind

\* a missing object before a note: the note's content is returned
C14_Witness ==
    /\ notes = << "missing", "fg" >>
    /\ tail = "none"
    /\ Parsed
    /\ results = << Content("fg") >>

\* records at which the parser returns Err
FatalKinds == { "badsize", "badheader" }

\* the contents of the records of ns that carry a decodable content, in stream order
RECURSIVE ContentsOf(_)
ContentsOf(ns) ==
    IF ns = <<>> THEN <<>>
    ELSE (IF Head(ns) \in ContentKinds \ { "undecodable" }
          THEN << Content(Head(ns)) >> ELSE <<>>)
         \o ContentsOf(Tail(ns))

\* index of the first record whose header announces more content bytes than
\* remain in the stream, 0 when there is none
FirstOverlong(ns) ==
    IF HasKind(ns, "huge")
    THEN CHOOSE i \in 1..Len(ns) : ns[i] = "huge" /\ \A j \in 1..(i - 1) : ns[j] # "huge"
    ELSE 0

\* the complete records before the truncated one
BeforeTruncation(ns) ==
    IF FirstOverlong(ns) = 0 THEN ns ELSE SubSeq(ns, 1, FirstOverlong(ns) - 1)

\* the stream ends in a truncated record
Truncated == tail \in { "header_cut", "content_cut" } \/ HasKind(notes, "huge")

\* a record cut short in its header or in its content ends a stream of well-formed records
CutRecordStopsParsing ==
    (tail \in { "header_cut", "content_cut" } /\ ~HasKind(notes, "huge")
        /\ \A k \in FatalKinds : ~HasKind(notes, k)) =>
        /\ ~ParseFailed
        /\ Parsed => results = ContentsOf(notes)

\* C15: when the batch output ends in a truncated record (a header with no line
\* feed after it, or a header announcing more content bytes than remain), parsing
\* stops there without error and returns the contents of the complete records
\* before it, unchanged and in stream order.
C15_TruncatedTailStopsWithoutError ==
    (Truncated /\ \A k \in FatalKinds : ~HasKind(BeforeTruncation(notes), k)) =>
        /\ ~ParseFailed
        /\ Parsed => results = ContentsOf(BeforeTruncation(notes))

\* C16: a record whose content is not decodable as text is skipped alone: it
\* produces no entry, its announced size and the line feed after it are consumed,
\* and the parser's outcome is its outcome on the stream without such records.
C16_UndecodableRecordSkippedAlone ==
    LET without == parse_cat_file_batch_output(RecordsWithout(notes, 1, "undecodable"))
    IN  /\ Parsed => without.kind = "ok" /\ results = without.results
        /\ ParseFailed => without.kind = ret.kind

\* an undecodable record before a note: the note's content is returned
C16_Witness ==
    /\ notes = << "undecodable", "fg" >>
    /\ tail = "none"
    /\ Parsed
    /\ pos = Len(cat_file.stdout)
    /\ results = << Content("fg") >>

\* the payload has a line that is exactly "---"
HasDividerLine(content) == FirstDividerLine(SplitLf(content, <<>>, <<>>)) # 0

\* the extractor is about to take the payload results[next_content]
Extracting == ipc = "extract" /\ next_content <= Len(results)

\* C17: a note payload with no divider line leaves the accumulating set of file
\* paths unchanged and raises nothing, and the schema parser is not called for it.
C17_NoDividerContributesNothing ==
    [][(Extracting /\ ~HasDividerLine(results[next_content])) =>
           /\ all_files' = all_files
           /\ docs' = docs
           /\ ret' = ret
           /\ ipc' = "extract"]_vars

\* the payload without divider came after a valid note, whose paths are kept
C17_Witness ==
    /\ notes = << "fg", "nodivider" >>
    /\ results = << Content("fg"), Content("nodivider") >>
    /\ ipc = "extract"
    /\ next_content = 3
    /\ all_files = { <<"f">>, <<"g">> }
    /\ Len(docs) = 1

\* the parser rejects the document the extractor makes of the payload
ParserFails(content) ==
    divider_pos(content) # -1 /\ ~deserialize_from_string(parseable(content)).ok

\* every stored note is valid or of a schema the parser rejects, one at least rejected
SomeRejected(ns) ==
    /\ \A i \in 1..Len(ns) : ns[i] \in ValidKinds \cup { "badschema" }
    /\ HasKind(ns, "badschema")

\* C18: when the schema parser fails on a note's attestation section, the extractor
\* leaves the accumulating set unchanged for that note and the traversal goes on:
\* the paths of every other note, before and after it, are in the returned index.
C18_ParserFailureSkipsOnlyThatNote ==
    /\ (Extracting /\ ParserFails(results[next_content])) =>
           extract_file_paths_from_note(results[next_content], all_files)
               = Extracted("ok", all_files, << parseable(results[next_content]) >>)
    /\ (Healthy /\ SomeRejected(notes) /\ Returned) =>
           /\ ret = [kind |-> "ok", files |-> PathsOfNotes(notes)]
           /\ Len(docs) = Len(notes)

\* the rejected note came first: the paths of the note after it are returned
C18_Witness ==
    /\ Healthy
    /\ notes = << "badschema", "fg" >>
    /\ Returned
    /\ Len(results) = 2
    /\ ParserFails(results[1])
    /\ ret = [kind |-> "ok", files |-> { <<"f">>, <<"g">> }]

\* C19: two successive calls of load_all_ai_touched_files on the same repository,
\* nothing written in between, return the same result: it depends on the stored
\* notes only, and the second call starts from nothing the first one left.
C19_SecondCallReturnsTheSame ==
    (call_no = 2 /\ Returned) =>
        /\ ret = first_ret
        /\ ret.kind = "ok" => round_trips = (IF blob_shas = <<>> THEN 0 ELSE 1)

\* both calls found the paths of two notes
C19_Witness ==
    /\ call_no = 2
    /\ Returned
    /\ notes = << "f", "fg" >>
    /\ first_ret = [kind |-> "ok", files |-> { <<"f">>, <<"g">> }]
    /\ ret = first_ret

\* lines joined by line feeds
RECURSIVE JoinLines(_)
JoinLines(ls) ==
    IF ls = <<>> THEN <<>>
    ELSE IF Len(ls) = 1 THEN Head(ls)
    ELSE Head(ls) \o <<"\n">> \o JoinLines(Tail(ls))

\* the text of the payload before its first line that is exactly "---"
BeforeDividerLine(content) ==
    LET ls == SplitLf(content, <<>>, <<>>)
    IN  JoinLines(SubSeq(ls, 1, FirstDividerLine(ls) - 1))

\* C20: for every note payload, the extractor takes as divider the first line that
\* is exactly "---", be it the first line, a middle line or the last line, and hands
\* the schema parser the text before that line followed by the synthetic trailer;
\* a payload with such a line is never treated as having no divider.
C20_DividerLineFoundWhereverItIs ==
    (Extracting /\ HasDividerLine(results[next_content])) =>
        extract_file_paths_from_note(results[next_content], all_files).handed
            = << BeforeDividerLine(results[next_content]) \o Divider \o << MinimalMetadata >> >>

\* the enumeration subprocess failed, and not with the exit code of a missing ref
OtherEnumerationFailure == ~ls_tree.ok /\ ls_tree.code # RefNotFoundCode

\* C21: the enumerator turns only the ref-not-found failure (exit code 128) into an
\* empty list: every other failure of the enumeration subprocess is returned to
\* the caller as an error, never as an empty namespace.
C21_OtherEnumerationFailuresPropagate ==
    /\ OtherEnumerationFailure =>
           /\ get_note_blob_shas(ls_tree).kind = "err"
           /\ ipc # "enumerate" => Returned /\ ret.kind = "err" /\ round_trips = 0
    /\ (~ls_tree.ok /\ get_note_blob_shas(ls_tree).kind = "ok") => NamespaceMissing

\* ls-tree failed with no exit code while notes are stored: the call returned Err
C21_Witness ==
    /\ ~ls_tree.ok
    /\ ls_tree.code = NoCode
    /\ notes # <<>>
    /\ Returned
    /\ ret.kind = "err"

\* the steps of one call, in the order the pipeline takes them
PipelineOrder ==
    { <<"enumerate", "check_empty">>, <<"enumerate", "returned">>,
      <<"check_empty", "returned">>, <<"check_empty", "batch_read">>,
      <<"batch_read", "parse">>, <<"batch_read", "returned">>,
      <<"parse", "parse">>, <<"parse", "extract">>, <<"parse", "returned">>,
      <<"extract", "extract">>, <<"extract", "returned">> }

\* where the call stands with respect to its one bulk read
BulkReadState ==
    /\ round_trips <= 1
    /\ ipc \in { "enumerate", "check_empty", "batch_read" } => round_trips = 0
    /\ ipc \in { "parse", "extract" } => round_trips = 1
    /\ ipc = "batch_read" => blob_shas # <<>>
    /\ round_trips = 1 => blob_shas # <<>> /\ stdin_data = JoinLf(blob_shas)
    /\ (Returned /\ ls_tree.ok /\ is_utf8(ls_tree.stdout) /\ blob_shas = <<>>) =>
           ret = EmptyIndex /\ round_trips = 0

\* C22: the pipeline runs its steps in the order enumerate, batch-read, extract; when
\* the enumeration yields no object id it returns the empty set at once; the bulk
\* read is issued at most once per call and never with an empty list of ids.
C22_PipelineOrderAndSingleRoundTrip ==
    /\ []BulkReadState
    /\ [][call_no' = call_no =>
              /\ <<ipc, ipc'>> \in PipelineOrder
              /\ (ipc = "check_empty" /\ blob_shas = <<>>) => ipc' = "returned"
              /\ round_trips' # round_trips => ipc = "batch_read"]_vars

\* a call that went through the whole pipeline with one bulk read of two ids
C22_Witness ==
    /\ Returned
    /\ ret.kind = "ok"
    /\ Len(blob_shas) = 2
    /\ round_trips = 1
    /\ stdin_data = Sha(1) \o <<"\n">> \o Sha(2) \o <<"\n">>
    /\ next_content = Len(results) + 1

----------------------------------------------------------------------------
(* Claims about the concurrency and the order of the hooks *)

\* the spawned thread has not finished
BgRunning == bg.pc \in { "started", "opened" }

\* the thread can take a step
BgCanStep == ENABLED (Bg_find_repository \/ Bg_fetch_authorship_notes \/ Bg_panic)

\* the background fetch and the main command are both in flight
BothInFlight == pc = "main_running" /\ BgRunning

\* C23: PRE returns without waiting for the background notes fetch it launched, so
\* the fetch runs concurrently with the main command: while both are in flight
\* either one can be the next to finish, and the main command can end whatever the
\* state of the background fetch.
C23_BackgroundRunsBesideMainCommand ==
    /\ [](pc = "main_running" => ENABLED MainCommandExits)
    /\ [](BothInFlight => BgCanStep)
    /\ [][pc = "pre_spawn" => pc' = "pre_returned" /\ bg'.pc = "started"]_vars

\* the main command is running and the thread is in the middle of its fetch
C23_Witness ==
    /\ pc = "main_running"
    /\ pre_ret # 0
    /\ bg.pc = "opened"

\* the main command ended first: POST waits in join for a thread still running
MainCommandFinishedFirst == pc \in { "fetch_post_join", "pull_post_join" } /\ BgRunning

\* the thread ended first: the main command is still running
BackgroundFinishedFirst == pc = "main_running" /\ bg.pc = "done"

\* positions of pull POST after the join
AfterJoinPcs ==
    { "pull_post_exit", "pull_post_old_head", "pull_post_new_head",
      "pull_post_compare", "pull_post_reflog", "pull_post_rename" }

\* what pull POST does to the repository after the join
RepositorySteps == { "head", "reflog", "rename_working_log" }

\* a thread was spawned in this invocation
Spawned == bg # NotSpawned

\* C24: in pull POST the join of the background handle comes before every other
\* step: the current head is read, the reflog is read and the Working Log rename
\* is requested only after the background notes fetch has finished, so no rename
\* happens while a background fetch of the same invocation is still running.
C24_JoinBeforeEveryPullPostStep ==
    /\ [](Spawned =>
            /\ pc \in AfterJoinPcs => bg.pc = "done" /\ joins = 1
            /\ \A i \in 1..Len(calls) :
                  calls[i] \in RepositorySteps =>
                      \E j \in 1..(i - 1) : calls[j] = "join"
            /\ renames # <<>> => bg.pc = "done")
    /\ [][(Len(calls') = Len(calls) + 1 /\ calls'[Len(calls')] \in RepositorySteps) =>
              ~BgRunning /\ (Spawned => joins = 1)]_vars

\* the rename was requested after the join of a thread that had fetched the notes
C24_Witness ==
    /\ pc = "post_returned"
    /\ command = "pull"
    /\ bg = [pc |-> "done", result |-> "fetched"]
    /\ joins = 1
    /\ Len(renames) = 1
    /\ calls[Len(calls)] = "rename_working_log"

\* a step of one of the two POST hooks
PostStep ==
    \/ FetchPost_take
    \/ FetchPost_join
    \/ PullPost_take
    \/ PullPost_join
    \/ PullPost_exit_status
    \/ PullPost_old_head
    \/ PullPost_new_head
    \/ PullPost_compare
    \/ PullPost_reflog
    \/ PullPost_rename

\* a step of the spawned thread
BgStep == Bg_find_repository \/ Bg_fetch_authorship_notes \/ Bg_panic

\* The hooks, with a foreground thread that goes on running the POST hook it is in
\* and a background fetch that completes or fails in the end
SpecLive == Init /\ [][Next]_vars /\ WF_vars(PostStep) /\ WF_vars(BgStep)

\* C25: POST has no timeout and does not cancel the background task: provided the
\* background notes fetch completes or fails in the end, every POST invocation
\* returns in the end, whatever the outcome of the main command; and POST does not
\* return while that fetch is still running.
C25_PostReturnsOnceBackgroundEnds ==
    /\ (pc \in PostPcs) ~> (pc = "post_returned")
    /\ [][(pc \in PostPcs /\ pc' # pc) => bg' = bg /\ (pc' = "post_returned" => ~BgRunning)]_vars

\* fetch POST returned after a failed fetch, having joined a thread that failed too
C25_Witness ==
    /\ pc = "post_returned"
    /\ command = "fetch"
    /\ exit_status = "failure"
    /\ joins = 1
    /\ bg = [pc |-> "done", result |-> "open_failed"]

----------------------------------------------------------------------------
(* Claim about the termination of the parser *)

\* the parser is at the head of its loop, with bytes left to read
InParseLoop == cat_file.ok /\ ipc = "parse" /\ pos < Len(cat_file.stdout)

\* C26: parsing of the batch output terminates on every finite byte stream: each
\* turn of the loop either stops (break, Err) or moves the read position strictly
\* forward, and never beyond one past the end of the stream, whatever the record
\* (empty header line, missing record, zero-size record, malformed header).
C26_ParseLoopMovesForwardOrStops ==
    /\ ipc = "parse" => pos <= Len(cat_file.stdout) + 1
    /\ InParseLoop =>
           LET st == parse_step(cat_file.stdout, pos, results)
           IN  /\ st.kind \in { "continue", "break", "err", "panic" }
               /\ st.kind = "continue" =>
                      /\ st.pos > pos
                      /\ st.pos <= Len(cat_file.stdout) + 1
                      /\ Len(st.results) \in { Len(results), Len(results) + 1 }

\* an empty header line and a zero-size record were read to the end of the stream
C26_Witness ==
    /\ notes = << "blank", "empty" >>
    /\ tail = "none"
    /\ Parsed
    /\ pos = Len(cat_file.stdout)
    /\ results = << <<>> >>

====
